---- MODULE Spec2Model ----
(***************************************************************************)
(* Model of src/machine.py: the class `machine` that builds a table of     *)
(* benchmarking jobs (__init__) and runs them sequentially (runBenchmarks).*)
(*                                                                         *)
(* The program is sequential; `pc` is the position of the one thread of    *)
(* control.  __init__ and runBenchmarks are cut into steps at the points   *)
(* where the code raises, calls the stage runner (module benchmark) or     *)
(* writes a file.  Arguments of a call are fixed by the caller when the    *)
(* call is made; the list shapes are part of the initial state and every   *)
(* other argument is drawn at the step that first reads it, which yields   *)
(* the same behaviours since nothing observes an argument before that.     *)
(***************************************************************************)
EXTENDS Integers, Sequences, FiniteSets, TLC

\* ------------------------------------------------------------------------
\* Bounds of the model
\* ------------------------------------------------------------------------
MaxSets == 2
MaxIters == 2
MaxJobs == 4
MaxRuns == 2
MaxFiles == 2
MaxLines == 2

\* ------------------------------------------------------------------------
\* Value domains
\* ------------------------------------------------------------------------
\* Data-set names.  parameters.py (the catalog) has the attributes in
\* CatalogNames; the last two characters of a name are its CASA version.
CatalogNames == {"A42", "B42", "A41"}
AllNames == CatalogNames \cup {"X42"}
NameSuffix(d) == IF d = "A41" THEN "41" ELSE "42"
casaVersion == "4.2.0"
VersionDigits(v) == IF v = "4.2.0" THEN "42" ELSE "??"
RunnableNames == {d \in CatalogNames : NameSuffix(d) = VersionDigits(casaVersion)}

StepLiterals == {"cal", "im", "both"}
SourceLiterals == {"web", "disk"}

\* Python values the caller may put in the lists.  type is the Python type.
IntVal(v) == [type |-> "int", val |-> v]
NIterVals == {IntVal(-1), IntVal(1), [type |-> "float", val |-> 1]}
SkipVals == {[type |-> "bool", val |-> TRUE], [type |-> "bool", val |-> FALSE],
             [type |-> "int", val |-> TRUE]}
StepVals == StepLiterals \cup {"calibration"}
SourceVals == SourceLiterals \cup {"local"}
QuietVals == SkipVals
WorkDirVals == {"/work/", "/work", "./", "work", "/nodir"}

\* One position of the four per-data-set argument lists.
Rows == [nIters : NIterVals, skipDownload : SkipVals, step : StepVals,
         scriptsSource : SourceVals]

\* Hosts: the facts __init__ gathers.  memUnit and cpuUnit are the units in
\* the hostinfo / sysctl output of a Darwin host.
DarwinHosts == [darwin : {TRUE}, lustreAccess : BOOLEAN,
                memUnit : {"gigabytes", "megabytes", "kilobytes"},
                cpuUnit : {"GHz", "MHz", "Hz"}]
LinuxHosts == [darwin : {FALSE}, lustreAccess : BOOLEAN, memUnit : {"na"}, cpuUnit : {"na"}]
Hosts == DarwinHosts \cup LinuxHosts

SeqsUpTo(S, n) == UNION {[1..m -> S] : m \in 0..n}

VARIABLES
    pc,             \* position of the thread of control
    error,          \* exception class raised by __init__, or "none"
    host,           \* the computer the process runs on
    dataSetsArg,    \* argument dataSets of __init__
    argLens,        \* lengths of the arguments nIters, skipDownloads, steps, scriptsSources
    rows,           \* the positions of those lists read so far
    CASAglobals,    \* self._CASAglobals
    scriptDir,      \* self.scriptDir
    totalMemBytes,  \* whether self.totalMemBytes is set
    dataSets,       \* self.dataSets
    jobs,           \* self.jobs; jobsCreated is FALSE before line 286
    jobsCreated,
    pos,            \* loop index of the validation loop (302) and of the data-set loop (386)
    workDir,        \* self.workDir
    quiet,          \* self.quiet
    machineLog,     \* content of [hostname]_machine_info.log: "absent", "partial", "full"
    wrappingLog,    \* lines of [hostname]_machine_wrapping.log
    stdout,         \* lines printed to the terminal
    dirs,           \* data-set directories present under workDir
    calls,          \* calls made to the stage runner, in order
    runNo,          \* number of calls of runBenchmarks so far
    cleanUp,        \* argument cleanUp of the current runBenchmarks call
    iter,           \* loop variable i of the iteration loop (437)
    src,            \* dataPath, calSource, imSource of the current data set
    replay,         \* the statuses the stage runner reported, kept to compare two runs
    files,          \* argument files of makeReport: the lines of each file
    rpc,            \* position of a call of makeReport: "idle", "call", "returned", "raised"
    report          \* what makeReport returned or raised

vars == <<pc, error, host, dataSetsArg, argLens, rows, CASAglobals, scriptDir,
          totalMemBytes, dataSets, jobs, jobsCreated, pos, workDir, quiet,
          machineLog, wrappingLog, stdout, dirs, calls, runNo, cleanUp, iter, src,
          replay, files, rpc, report>>

buildVars == <<error, CASAglobals, scriptDir, totalMemBytes, dataSets, jobsCreated,
               workDir, quiet, machineLog, rows>>
runVars == <<wrappingLog, stdout, dirs, calls, runNo, cleanUp, iter, src, replay>>
logVars == <<wrappingLog, stdout>>
argVars == <<host, dataSetsArg, argLens>>
reportVars == <<files, rpc, report>>

NoSrc == [dataPath |-> <<>>, calSource |-> <<>>, imSource |-> <<>>]
NoJobs == [d \in {} |-> 0]
NoReport == [error |-> "none", avg |-> <<>>, std |-> <<>>, times |-> <<>>]
NoCall == files = <<>> /\ rpc = "idle" /\ report = NoReport

\* ------------------------------------------------------------------------
\* machine.__init__
\* ------------------------------------------------------------------------
Raise(e) == pc' = "raised" /\ error' = e

\* 200-204
CheckCASAglobals ==
    /\ pc = "checkCASAglobals"
    /\ \E g \in {"globals", "None"} :
        IF g = "None"
        THEN Raise("ValueError") /\ UNCHANGED CASAglobals
        ELSE pc' = "checkScriptDir" /\ CASAglobals' = g /\ UNCHANGED error
    /\ UNCHANGED <<scriptDir, totalMemBytes, dataSets, jobs, jobsCreated, workDir,
                   quiet, machineLog, rows, pos>>
    /\ UNCHANGED <<argVars, runVars, reportVars>>

\* 206-212
CheckScriptDir ==
    /\ pc = "checkScriptDir"
    /\ \E s \in {"/scripts", ""} :
        IF s = ""
        THEN Raise("ValueError") /\ UNCHANGED scriptDir
        ELSE pc' = "gatherFacts" /\ scriptDir' = "/scripts/" /\ UNCHANGED error
    /\ UNCHANGED <<CASAglobals, totalMemBytes, dataSets, jobs, jobsCreated, workDir,
                   quiet, machineLog, rows, pos>>
    /\ UNCHANGED <<argVars, runVars, reportVars>>

\* 223-237 and 256-257: self.totalMemBytes is assigned on a Darwin host only
\* when the unit is gigabytes (the megabytes branch assigns self.memBtyes).
MemBytesSet(h) == IF h.darwin THEN h.memUnit = "gigabytes" ELSE TRUE
\* 231-237 and 246-254: units the Darwin branch does not recognize
FactsError(h) ==
    IF h.darwin /\ h.memUnit \notin {"gigabytes", "megabytes"} THEN "ValueError"
    ELSE IF h.darwin /\ h.cpuUnit \notin {"GHz", "MHz"} THEN "ValueError"
    ELSE "none"

\* 214-269
GatherFacts ==
    /\ pc = "gatherFacts"
    /\ IF FactsError(host) # "none"
       THEN Raise(FactsError(host)) /\ UNCHANGED totalMemBytes
       ELSE pc' = "checkDataSets" /\ totalMemBytes' = MemBytesSet(host) /\ UNCHANGED error
    /\ UNCHANGED <<CASAglobals, scriptDir, dataSets, jobs, jobsCreated, workDir,
                   quiet, machineLog, rows, pos>>
    /\ UNCHANGED <<argVars, runVars, reportVars>>

\* Variant of InCatalog: the catalog is not consulted.
InCatalogAny(d) == TRUE
\* 276: hasattr(parameters, dataSet)
InCatalog(d) == d \in CatalogNames
\* 279: dataSet[-2:] != self.casaVersion[0] + self.casaVersion[2]
VersionMatches(d) == NameSuffix(d) = VersionDigits(casaVersion)

\* 272-282
DataSetsError(ds) ==
    IF Len(ds) = 0 THEN "ValueError"
    ELSE IF \E k \in 1..Len(ds) : ~InCatalog(ds[k]) \/ ~VersionMatches(ds[k])
         THEN "ValueError"
         ELSE "none"

\* 271-283
CheckDataSets ==
    /\ pc = "checkDataSets"
    /\ IF DataSetsError(dataSetsArg) # "none"
       THEN Raise(DataSetsError(dataSetsArg)) /\ UNCHANGED dataSets
       ELSE pc' = "createJobs" /\ dataSets' = dataSetsArg /\ UNCHANGED error
    /\ UNCHANGED <<CASAglobals, scriptDir, totalMemBytes, jobs, jobsCreated, workDir,
                   quiet, machineLog, rows, pos>>
    /\ UNCHANGED <<argVars, runVars, reportVars>>

\* 284-285: an empty steps list is replaced by 'both' for every data set
StepsLen(lens, n) == IF lens.steps = 0 THEN n ELSE lens.steps
StepsDefaulted(lens) == lens.steps = 0

\* 288-289: the entry of a data set before the loop at 302 fills it
EmptyJob == [benchmarks |-> <<>>, filled |-> FALSE, nIters |-> 0,
             skipDownload |-> FALSE, step |-> "", scriptsSource |-> ""]

\* 286-289: one entry per name; a name listed twice has one entry
NewJobs(ds) == [d \in {ds[k] : k \in 1..Len(ds)} |-> EmptyJob]

\* 284-289
CreateJobs ==
    /\ pc = "createJobs"
    /\ jobs' = NewJobs(dataSets)
    /\ jobsCreated' = TRUE
    /\ pc' = "checkLengths"
    /\ UNCHANGED <<error, CASAglobals, scriptDir, totalMemBytes, dataSets, workDir,
                   quiet, machineLog, rows, pos>>
    /\ UNCHANGED <<argVars, runVars, reportVars>>

\* Variant of LengthsError: the check of scriptsSources is missing.
LengthsErrorNoSources(lens, n) ==
    IF lens.nIters # n THEN "ValueError"
    ELSE IF lens.skipDownloads # n THEN "ValueError"
    ELSE IF StepsLen(lens, n) # n THEN "ValueError"
    ELSE "none"

\* 290-301
LengthsError(lens, n) ==
    IF lens.nIters # n THEN "ValueError"
    ELSE IF lens.skipDownloads # n THEN "ValueError"
    ELSE IF StepsLen(lens, n) # n THEN "ValueError"
    ELSE IF lens.scriptsSources # n THEN "ValueError"
    ELSE "none"

CheckLengths ==
    /\ pc = "checkLengths"
    /\ IF LengthsError(argLens, Len(dataSets)) # "none"
       THEN Raise(LengthsError(argLens, Len(dataSets))) /\ UNCHANGED pos
       ELSE pc' = "fillJobs" /\ pos' = 1 /\ UNCHANGED error
    /\ UNCHANGED <<CASAglobals, scriptDir, totalMemBytes, dataSets, jobs, jobsCreated,
                   workDir, quiet, machineLog, rows>>
    /\ UNCHANGED <<argVars, runVars, reportVars>>

\* Variant of RowError: the check of scriptsSources[i] is missing.
RowErrorNoSource(r) ==
    IF r.nIters.type # "int" THEN "TypeError"
    ELSE IF r.skipDownload.type # "bool" THEN "TypeError"
    ELSE IF r.step \notin StepLiterals THEN "ValueError"
    ELSE "none"

\* 303-312: the checks on position i of the four lists
RowError(r) ==
    IF r.nIters.type # "int" THEN "TypeError"
    ELSE IF r.skipDownload.type # "bool" THEN "TypeError"
    ELSE IF r.step \notin StepLiterals THEN "ValueError"
    ELSE IF r.scriptsSource \notin SourceLiterals THEN "ValueError"
    ELSE "none"

\* 313-316
FillJob(j, d, r) ==
    [j EXCEPT ![d] = [@ EXCEPT !.filled = TRUE,
                               !.nIters = r.nIters.val,
                               !.skipDownload = r.skipDownload.val,
                               !.step = r.step,
                               !.scriptsSource = r.scriptsSource]]

\* The rows the caller can have put at a position: with the steps list left
\* empty, line 285 makes every step 'both'.
RowsGiven(rowSet, lens) ==
    IF StepsDefaulted(lens) THEN {r \in rowSet : r.step = "both"} ELSE rowSet

\* 302-316, one pass of the loop body; the caller's lists hold rows of rowSet
FillJobs(rowSet) ==
    /\ pc = "fillJobs"
    /\ IF pos > Len(dataSets)
       THEN /\ pc' = "checkWorkDir"
            /\ UNCHANGED <<error, jobs, rows, pos>>
       ELSE \E r \in RowsGiven(rowSet, argLens) :
            /\ rows' = Append(rows, r)
            /\ IF RowError(r) # "none"
               THEN Raise(RowError(r)) /\ UNCHANGED <<jobs, pos>>
               ELSE /\ jobs' = FillJob(jobs, dataSets[pos], r)
                    /\ pos' = pos + 1
                    /\ UNCHANGED <<pc, error>>
    /\ UNCHANGED <<CASAglobals, scriptDir, totalMemBytes, dataSets, jobsCreated,
                   workDir, quiet, machineLog>>
    /\ UNCHANGED <<argVars, runVars, reportVars>>

\* 319: os.path.isdir(workDir)
IsDir(w) == w # "/nodir"
\* 322-323
NormWorkDir(w) ==
    IF w = "./" THEN "/work/"
    ELSE IF w = "/work" THEN "/work/"
    ELSE IF w = "work" THEN "work/"
    ELSE w
\* 324: workDir[0] != '/'
IsAbsolute(w) == w \in {"/work/", "/nodir/"}
\* Variant of WorkDirError: the check for an absolute path is missing.
WorkDirErrorNoAbsolute(w) == IF ~IsDir(w) THEN "ValueError" ELSE "none"

\* 318-326
WorkDirError(w) ==
    IF ~IsDir(w) THEN "ValueError"
    ELSE IF ~IsAbsolute(NormWorkDir(w)) THEN "ValueError"
    ELSE "none"

\* 318-327
CheckWorkDir ==
    /\ pc = "checkWorkDir"
    /\ \E w \in WorkDirVals :
        IF WorkDirError(w) # "none"
        THEN Raise(WorkDirError(w)) /\ UNCHANGED workDir
        ELSE pc' = "checkQuiet" /\ workDir' = NormWorkDir(w) /\ UNCHANGED error
    /\ UNCHANGED <<CASAglobals, scriptDir, totalMemBytes, dataSets, jobs, jobsCreated,
                   quiet, machineLog, rows, pos>>
    /\ UNCHANGED <<argVars, runVars, reportVars>>

\* 330-331
QuietError(q) == IF q.type # "bool" THEN "TypeError" ELSE "none"

\* 329-335
CheckQuiet ==
    /\ pc = "checkQuiet"
    /\ \E q \in QuietVals :
        IF QuietError(q) # "none"
        THEN Raise(QuietError(q)) /\ UNCHANGED quiet
        ELSE pc' = "writeMachineLog" /\ quiet' = q.val /\ UNCHANGED error
    /\ UNCHANGED <<CASAglobals, scriptDir, totalMemBytes, dataSets, jobs, jobsCreated,
                   workDir, machineLog, rows, pos>>
    /\ UNCHANGED <<argVars, runVars, reportVars>>

\* 337-349: line 342 reads self.totalMemBytes after two lines are written
WriteMachineLog ==
    /\ pc = "writeMachineLog"
    /\ IF totalMemBytes
       THEN machineLog' = "full" /\ pc' = "built" /\ UNCHANGED error
       ELSE machineLog' = "partial" /\ Raise("AttributeError")
    /\ pos' = 0
    /\ UNCHANGED <<CASAglobals, scriptDir, totalMemBytes, dataSets, jobs, jobsCreated,
                   workDir, quiet, rows>>
    /\ UNCHANGED <<argVars, runVars, reportVars>>

\* ------------------------------------------------------------------------
\* The stage runner (class benchmark.benchmark), an external collaborator
\* ------------------------------------------------------------------------
\* The status of a run context is 'normal' when it is constructed, and any
\* of its steps may leave it or turn it to 'failure'.
\* In a specification that compares two runs, replay.mode is "record" in the
\* first run, where replay.outcomes are the statuses reported so far, and
\* "replay" in the second, where the stage runner reports the statuses of the
\* first run again and replay.outcomes are those yet to come; replay.log,
\* replay.calls and replay.stdout are what the first run left.
NewStatus == "normal"
StepOutcomes(status) ==
    IF replay.mode = "replay" /\ replay.outcomes # <<>>
    THEN {Head(replay.outcomes)}
    ELSE {status, "failure"}

ReplayOff == [mode |-> "off", outcomes |-> <<>>, log |-> <<>>, calls |-> <<>>, stdout |-> <<>>]
Reported(st) ==
    replay' = CASE replay.mode = "record" -> [replay EXCEPT !.outcomes = Append(@, st)]
                [] replay.mode = "replay" /\ replay.outcomes # <<>> ->
                       [replay EXCEPT !.outcomes = Tail(@)]
                [] OTHER -> replay

\* ------------------------------------------------------------------------
\* machine.writeToWrappingLog and machine._printAndFlush
\* ------------------------------------------------------------------------
\* The lines written: 393-396 name the data set and its nIters, 438 names
\* the index i only, 470 names neither.
LogLine(event, d, n) == [event |-> event, dataSet |-> d, n |-> n]

\* Variant of WrappingLogAfter: the line is put in front of the file.
WrappingLogPrepended(log, line) == <<line>> \o log
\* 502-504
WrappingLogAfter(log, line) == Append(log, line)
\* 506-507 and 532-533
StdoutAfter(out, line, q) == IF ~q THEN Append(out, line) ELSE out

\* Variant of writeToWrappingLog: a quiet machine writes no line.
writeToWrappingLogUnlessQuiet(line, q) ==
    /\ wrappingLog' = (IF ~q THEN WrappingLogAfter(wrappingLog, line) ELSE wrappingLog)
    /\ stdout' = StdoutAfter(stdout, line, q)

writeToWrappingLog(line, q) ==
    /\ wrappingLog' = WrappingLogAfter(wrappingLog, line)
    /\ stdout' = StdoutAfter(stdout, line, q)

\* ------------------------------------------------------------------------
\* machine.runBenchmarks
\* ------------------------------------------------------------------------
\* A location of the parameter catalog: params[branch][field] of data set d.
Location(d, branch, field) == <<d, branch, field>>

\* 402 and 426: not self.lustreAccess and 'Darwin' in self.os
UseElric(h) == ~h.lustreAccess /\ h.darwin

\* 403-408, 410-415, 417-422
DataField(step) ==
    CASE step = "cal" -> "uncalData"
      [] step = "im" -> "calData"
      [] step = "both" -> "uncalData"

\* Variant of DataBranch: the operating system is not looked at.
DataBranchAnyOs(h, job) ==
    IF job.skipDownload
    THEN IF ~h.lustreAccess THEN "elric" ELSE "lustre"
    ELSE "online"

\* 401-422
DataBranch(h, job) ==
    IF job.skipDownload
    THEN IF UseElric(h) THEN "elric" ELSE "lustre"
    ELSE "online"

\* Variant of ScriptBranch: the scripts come from where the data come from.
ScriptBranchAsData(h, job) == DataBranch(h, job)

\* 425-434
ScriptBranch(h, job) ==
    IF job.scriptsSource = "disk"
    THEN IF UseElric(h) THEN "elric" ELSE "lustre"
    ELSE "online"

\* Variant of Resolve: after a failed iteration everything is taken from the
\* remote branch.
ResolveByOutcome(h, d, job) ==
    IF job.benchmarks # <<>> /\ job.benchmarks[Len(job.benchmarks)].status = "failure"
    THEN [dataPath |-> Location(d, "online", DataField(job.step)),
          calSource |-> Location(d, "online", "calScript"),
          imSource |-> Location(d, "online", "imScript")]
    ELSE [dataPath |-> Location(d, DataBranch(h, job), DataField(job.step)),
          calSource |-> Location(d, ScriptBranch(h, job), "calScript"),
          imSource |-> Location(d, ScriptBranch(h, job), "imScript")]

\* 399-434
Resolve(h, d, job) ==
    [dataPath |-> Location(d, DataBranch(h, job), DataField(job.step)),
     calSource |-> Location(d, ScriptBranch(h, job), "calScript"),
     imSource |-> Location(d, ScriptBranch(h, job), "imScript")]

\* A Python list indexed as the code does: list[j], negative j from the end.
PyIndex(list, j) == IF j < 0 THEN Len(list) + j + 1 ELSE j + 1

\* The run context of the iteration under way: the local variable b, which
\* 449 made the last element of the list.
CurDataSet == dataSets[pos]
CurList == jobs[CurDataSet].benchmarks
CurIndex == Len(CurList)
b == CurList[CurIndex]

Call(op, handle, other) == [op |-> op, b |-> handle.id, other |-> other]
NoHandle == <<>>

\* The status of the list element at index is set.
SetStatus(j, d, index, status) ==
    [j EXCEPT ![d].benchmarks[index].status = status]

\* The same, and the field afterScripts (history, not read by the program)
\* records the status the context has when line 461 reads it.
SetStatusAtScripts(j, d, index, status) ==
    [j EXCEPT ![d].benchmarks[index].status = status,
              ![d].benchmarks[index].afterScripts = status]

\* runBenchmarks(cleanUp) is called on a constructed machine; 381-386
CallRunBenchmarks(limit) ==
    /\ pc = "built"
    /\ runNo < limit
    /\ \E c \in BOOLEAN : cleanUp' = c
    /\ runNo' = runNo + 1
    /\ pos' = 1
    /\ pc' = "dataSet"
    /\ UNCHANGED <<buildVars, jobs, argVars, reportVars, logVars, dirs, calls, iter, src, replay>>

\* 386-434: the head of the data-set loop
StartDataSet ==
    /\ pc = "dataSet"
    /\ pos <= Len(dataSets)
    /\ dirs' = dirs \cup {CurDataSet}
    /\ writeToWrappingLog(LogLine("dataSet", CurDataSet, jobs[CurDataSet].nIters), quiet)
    /\ src' = Resolve(host, CurDataSet, jobs[CurDataSet])
    /\ iter' = 0
    /\ pc' = "iteration"
    /\ UNCHANGED <<buildVars, jobs, argVars, reportVars, calls, runNo, cleanUp, pos, replay>>

\* 437: range(nIters) has a next element, and the element after i
MoreIterations(i, n) == i < n
NextIter(i) == i + 1

\* 441-448: the context constructed for iteration i
NewBenchmark(run, p, i, job, s) ==
    [id |-> <<run, p, i>>, status |-> NewStatus, afterScripts |-> "", execStep |-> job.step,
     skipDownload |-> job.skipDownload, dataPath |-> s.dataPath,
     calSource |-> s.calSource, imSource |-> s.imSource]

\* 449
AppendBenchmark(j, d, handle) == [j EXCEPT ![d].benchmarks = Append(@, handle)]

\* Variant of AfterConstruction: the data are downloaded in any case.
AfterConstructionDownload(job) == "downloadData"
\* 451: the step after construction
AfterConstruction(job) == IF ~job.skipDownload THEN "downloadData" ELSE "extractData"

\* 437-451: the head of the iteration loop up to the construction of b
BeginIteration ==
    /\ pc = "iteration"
    /\ MoreIterations(iter, jobs[CurDataSet].nIters)
    /\ writeToWrappingLog(LogLine("iteration", "", iter), quiet)
    /\ LET handle == NewBenchmark(runNo, pos, iter, jobs[CurDataSet], src) IN
        /\ jobs' = AppendBenchmark(jobs, CurDataSet, handle)
        /\ calls' = Append(calls, Call("benchmark", handle, NoHandle))
    /\ pc' = AfterConstruction(jobs[CurDataSet])
    /\ UNCHANGED <<buildVars, argVars, reportVars, dirs, runNo, cleanUp, pos, iter, src, replay>>

\* 437: the iterations of the data set are exhausted; on to the next data set
EndDataSet ==
    /\ pc = "iteration"
    /\ ~MoreIterations(iter, jobs[CurDataSet].nIters)
    /\ pos' = pos + 1
    /\ pc' = "dataSet"
    /\ UNCHANGED <<buildVars, jobs, argVars, reportVars, logVars, dirs, calls, runNo, cleanUp, iter, src,
                   replay>>

\* 452
DownloadData ==
    /\ pc = "downloadData"
    /\ \E st \in StepOutcomes(b.status) :
        jobs' = SetStatus(jobs, CurDataSet, CurIndex, st) /\ Reported(st)
    /\ calls' = Append(calls, Call("downloadData", b, NoHandle))
    /\ pc' = "extractData"
    /\ UNCHANGED <<buildVars, argVars, reportVars, logVars, dirs, runNo, cleanUp, pos, iter, src>>

\* 453
ExtractData ==
    /\ pc = "extractData"
    /\ \E st \in StepOutcomes(b.status) :
        jobs' = SetStatus(jobs, CurDataSet, CurIndex, st) /\ Reported(st)
    /\ calls' = Append(calls, Call("extractData", b, NoHandle))
    /\ pc' = "scripts"
    /\ UNCHANGED <<buildVars, argVars, reportVars, logVars, dirs, runNo, cleanUp, pos, iter, src>>

\* 456-457: the context whose status decides, and whose scripts are reused
Previous(list, i) == list[PyIndex(list, i - 1)]
ReuseScripts(list, i) == Previous(list, i).status = "normal" /\ i # 0

\* 456-460
ScriptsCall(list, i, handle) ==
    IF ReuseScripts(list, i)
    THEN Call("useOtherBmarkScripts", handle, Previous(list, i).id)
    ELSE Call("doScriptExtraction", handle, NoHandle)

\* Variant of SkipRun: the status is not looked at.
SkipRunNever(status) == FALSE
\* 461: a failed context is not run
SkipRun(status) == status = "failure"
\* Variant of ContinueAt: break instead of continue.
BreakAt(i, n) == n
\* 461: continue, the value of i in the next pass of the loop at 437
ContinueAt(i, n) == NextIter(i)

\* 455-461
AcquireScripts ==
    /\ pc = "scripts"
    /\ calls' = Append(calls, ScriptsCall(CurList, iter, b))
    /\ \E st \in StepOutcomes(b.status) :
        /\ jobs' = SetStatusAtScripts(jobs, CurDataSet, CurIndex, st)
        /\ Reported(st)
        /\ IF SkipRun(st)
           THEN pc' = "iteration" /\ iter' = ContinueAt(iter, jobs[CurDataSet].nIters)
           ELSE pc' = "runGuideScripts" /\ UNCHANGED iter
    /\ UNCHANGED <<buildVars, argVars, reportVars, logVars, dirs, runNo, cleanUp, pos, src>>

\* Variant of CleanUpCalls: the context at index i-1 is cleaned, as 456-458
\* address it, instead of b.
CleanUpCallsPrevious(c, handle) ==
    IF ~c THEN <<>>
    ELSE <<Call("emptyCurrentRedDir", Previous(CurList, iter), NoHandle)>>

\* Variant of CleanUpCalls: nothing is cleaned after a failed execution.
CleanUpCallsIfNormal(c, handle) ==
    IF ~c \/ handle.status = "failure" THEN <<>>
    ELSE IF ~handle.skipDownload
         THEN <<Call("emptyCurrentRedDir", handle, NoHandle),
                Call("removeTarDir", handle, NoHandle)>>
         ELSE <<Call("emptyCurrentRedDir", handle, NoHandle)>>

\* 465-468: the calls made after the guide scripts have run
CleanUpCalls(c, handle) ==
    IF ~c THEN <<>>
    ELSE IF ~handle.skipDownload
         THEN <<Call("emptyCurrentRedDir", handle, NoHandle),
                Call("removeTarDir", handle, NoHandle)>>
         ELSE <<Call("emptyCurrentRedDir", handle, NoHandle)>>

\* 463
RunGuideScripts ==
    /\ pc = "runGuideScripts"
    /\ \E st \in StepOutcomes(b.status) :
        jobs' = SetStatus(jobs, CurDataSet, CurIndex, st) /\ Reported(st)
    /\ calls' = Append(calls, Call("runGuideScripts", b, NoHandle))
    /\ pc' = "cleanUp"
    /\ UNCHANGED <<buildVars, argVars, reportVars, logVars, dirs, runNo, cleanUp, pos, iter, src>>

\* 465-468, then the next pass of the loop at 437
CleanUp ==
    /\ pc = "cleanUp"
    /\ IF cleanUp
       THEN \E st \in StepOutcomes(b.status) :
                jobs' = SetStatus(jobs, CurDataSet, CurIndex, st) /\ Reported(st)
       ELSE UNCHANGED <<jobs, replay>>
    /\ calls' = calls \o CleanUpCalls(cleanUp, b)
    /\ iter' = NextIter(iter)
    /\ pc' = "iteration"
    /\ UNCHANGED <<buildVars, argVars, reportVars, logVars, dirs, runNo, cleanUp, pos, src>>

\* 470-471
FinishRun ==
    /\ pc = "dataSet"
    /\ pos > Len(dataSets)
    /\ writeToWrappingLog(LogLine("finished", "", 0), quiet)
    /\ pc' = "built"
    /\ pos' = 0
    /\ UNCHANGED <<buildVars, jobs, argVars, reportVars, dirs, calls, runNo, cleanUp, iter, src, replay>>

RunSteps ==
    \/ StartDataSet
    \/ BeginIteration
    \/ EndDataSet
    \/ DownloadData
    \/ ExtractData
    \/ AcquireScripts
    \/ RunGuideScripts
    \/ CleanUp
    \/ FinishRun

\* One call of runBenchmarks on the machine.
NextRun == CallRunBenchmarks(1) \/ RunSteps

\* machine(...) with argument lists whose positions are rows of rowSet
BuildSteps(rowSet) ==
    \/ CheckCASAglobals
    \/ CheckScriptDir
    \/ GatherFacts
    \/ CheckDataSets
    \/ CreateJobs
    \/ CheckLengths
    \/ FillJobs(rowSet)
    \/ CheckWorkDir
    \/ CheckQuiet
    \/ WriteMachineLog

NextBuild == BuildSteps(Rows)

\* The hosts and list shapes of the construction specification.
BuildHosts ==
    {h \in Hosts : /\ ~h.lustreAccess
                   /\ h.darwin => \/ h.memUnit = "megabytes" /\ h.cpuUnit # "MHz"
                                  \/ h.memUnit = "kilobytes" /\ h.cpuUnit = "GHz"}
ArgLens == [nIters : 0..MaxSets, skipDownloads : 0..MaxSets, steps : 0..MaxSets,
            scriptsSources : 0..MaxSets]

\* The state when machine(...) is called.
InitBuild ==
    /\ pc = "checkCASAglobals"
    /\ error = "none"
    /\ host \in BuildHosts
    /\ dataSetsArg \in SeqsUpTo(AllNames, MaxSets)
    /\ argLens \in ArgLens
    /\ rows = <<>>
    /\ CASAglobals = "unset"
    /\ scriptDir = "unset"
    /\ totalMemBytes = FALSE
    /\ dataSets = <<>>
    /\ jobs = NoJobs
    /\ jobsCreated = FALSE
    /\ pos = 0
    /\ workDir = "unset"
    /\ quiet = FALSE
    /\ machineLog = "absent"
    /\ wrappingLog = <<>>
    /\ stdout = <<>>
    /\ dirs = {}
    /\ calls = <<>>
    /\ runNo = 0
    /\ cleanUp = FALSE
    /\ iter = 0
    /\ src = NoSrc
    /\ replay = ReplayOff
    /\ NoCall

SpecBuild == InitBuild /\ [][NextBuild]_vars

\* Construction followed by one call of runBenchmarks, for fewer argument
\* values: one iteration per data set.
FewRows == [nIters : {IntVal(1), [type |-> "float", val |-> 1]},
            skipDownload : {[type |-> "bool", val |-> FALSE]},
            step : {"both", "calibration"}, scriptsSource : SourceLiterals]
NextAll == BuildSteps(FewRows) \/ NextRun
SpecAll == InitBuild /\ [][NextAll]_vars

\* ------------------------------------------------------------------------
\* The constructed machine
\* ------------------------------------------------------------------------
\* 302-316: the table after the loop has passed positions k..Len(ds)
RECURSIVE FillFrom(_, _, _, _)
FillFrom(j, ds, rs, k) ==
    IF k > Len(ds) THEN j ELSE FillFrom(FillJob(j, ds[k], rs[k]), ds, rs, k + 1)

\* 286-316: self.jobs of a machine constructed from valid arguments
JobsFrom(ds, rs) == FillFrom(NewJobs(ds), ds, rs, 1)

\* The number of iterations one call of runBenchmarks is to run.
RECURSIVE Planned(_, _, _)
Planned(j, ds, k) ==
    IF k > Len(ds) THEN 0
    ELSE (IF j[ds[k]].nIters > 0 THEN j[ds[k]].nIters ELSE 0) + Planned(j, ds, k + 1)

IterCounts == {IntVal(v) : v \in 0..MaxIters}
ValidHosts == {h \in Hosts : FactsError(h) = "none" /\ MemBytesSet(h)}

\* The data-set lists of the constructed machines considered; the names are
\* labels, so the first one is fixed.
NameLists == {ds \in SeqsUpTo(RunnableNames, MaxSets) : Len(ds) > 0 /\ ds[1] = "A42"}

\* The state after machine(...) has returned, for the hosts in hostSet, the
\* argument lists whose positions are in rowSet and quiet in quietSet.
Constructed(hostSet, rowSet, quietSet) ==
    /\ pc = "built"
    /\ error = "none"
    /\ host \in hostSet
    /\ dataSetsArg \in NameLists
    /\ dataSets = dataSetsArg
    /\ argLens = [nIters |-> Len(dataSets), skipDownloads |-> Len(dataSets),
                  steps |-> Len(dataSets), scriptsSources |-> Len(dataSets)]
    /\ rows \in [1..Len(dataSets) -> rowSet]
    /\ jobs = JobsFrom(dataSets, rows)
    /\ Planned(jobs, dataSets, 1) <= MaxJobs
    /\ jobsCreated = TRUE
    /\ CASAglobals = "globals"
    /\ scriptDir = "/scripts/"
    /\ totalMemBytes = TRUE
    /\ pos = 0
    /\ workDir = "/work/"
    /\ quiet \in quietSet
    /\ machineLog = "full"
    /\ wrappingLog = <<>>
    /\ stdout = <<>>
    /\ dirs = {}
    /\ calls = <<>>
    /\ runNo = 0
    /\ cleanUp = FALSE
    /\ iter = 0
    /\ src = NoSrc
    /\ NoCall

\* The argument values of the specification with fairness: the data of every
\* data set are downloaded.
FairRows == [nIters : IterCounts, skipDownload : {[type |-> "bool", val |-> FALSE]},
             step : {"both"}, scriptsSource : {"web"}]

\* The hosts and argument values of the scheduler specification.
RunHosts == {h \in ValidHosts : ~h.darwin /\ h.lustreAccess}
BoolVals == {v \in SkipVals : v.type = "bool"}
RunRows == [nIters : IterCounts, skipDownload : BoolVals, step : {"both"},
            scriptsSource : {"web"}]

Init == Constructed(RunHosts, RunRows, {FALSE}) /\ replay = ReplayOff
Spec == Init /\ [][NextRun]_vars
FairSpec ==
    /\ Constructed(RunHosts, FairRows, {FALSE})
    /\ replay = ReplayOff
    /\ [][NextRun]_vars
    /\ WF_vars(NextRun)

\* Up to MaxRuns calls of runBenchmarks on a machine with one data set.
NextRerun == CallRunBenchmarks(MaxRuns) \/ RunSteps
SpecRerun ==
    /\ Constructed(RunHosts, FairRows, {FALSE})
    /\ Len(dataSets) = 1
    /\ replay = ReplayOff
    /\ [][NextRerun]_vars

\* One call of runBenchmarks on a machine with one data set, for every host
\* that construction succeeds on and every valid RunSpec.
ResolveRows == [nIters : IterCounts, skipDownload : BoolVals, step : StepLiterals,
                scriptsSource : SourceLiterals]
SpecResolve ==
    /\ Constructed(ValidHosts, ResolveRows, {FALSE})
    /\ Len(dataSets) = 1
    /\ replay = ReplayOff
    /\ [][NextRun]_vars

\* machine(..., quiet=q).runBenchmarks(cleanUp) has returned; the same call
\* is made on a machine constructed from the same arguments but the other
\* value of quiet, in the same surroundings: 128-349 and 381-386.
SecondRun ==
    /\ pc = "built"
    /\ runNo = 1
    /\ replay.mode = "record"
    /\ replay' = [mode |-> "replay", outcomes |-> replay.outcomes, log |-> wrappingLog,
                  calls |-> calls, stdout |-> stdout]
    /\ quiet' = ~quiet
    /\ jobs' = JobsFrom(dataSets, rows)
    /\ wrappingLog' = <<>>
    /\ stdout' = <<>>
    /\ dirs' = {}
    /\ calls' = <<>>
    /\ pos' = 1
    /\ iter' = 0
    /\ src' = NoSrc
    /\ pc' = "dataSet"
    /\ UNCHANGED <<error, CASAglobals, scriptDir, totalMemBytes, dataSets, jobsCreated,
                   workDir, machineLog, rows, argVars, reportVars, runNo, cleanUp>>

\* Two runs that differ in quiet only, on machines with one data set.
NextQuiet == NextRun \/ SecondRun
SpecQuiet ==
    /\ Constructed(RunHosts, RunRows, BOOLEAN)
    /\ Len(dataSets) = 1
    /\ replay = [ReplayOff EXCEPT !.mode = "record"]
    /\ [][NextQuiet]_vars

\* ------------------------------------------------------------------------
\* makeReport
\* ------------------------------------------------------------------------
\* A line of a .summary file is the list of its parts between single spaces,
\* the list line.split(' ') returns.
TotalLine(tok) == <<"Total", "time:", tok, "s">>
SummaryLines == {TotalLine("10"), TotalLine("20"), TotalLine("n/a"), <<"Elapsed:", "10", "s">>}

\* 39: line[0:12] == 'Total time: '
StartsWithMarker(line) == Len(line) >= 3 /\ line[1] = "Total" /\ line[2] = "time:"

\* 40-41
SplitToken(line) == line[3]

\* 42: float(time) raises ValueError for a string that is no number
IsFloat(tok) == tok \in {"10", "20"}
FloatOf(tok) == CASE tok = "10" -> 10 [] tok = "20" -> 20

\* Variant of FirstMatch: the scan goes on to the last matching line.
RECURSIVE LastMatch(_, _)
LastMatch(lines, n) ==
    IF n > Len(lines) THEN 0
    ELSE IF LastMatch(lines, n + 1) # 0 THEN LastMatch(lines, n + 1)
    ELSE IF StartsWithMarker(lines[n]) THEN n
    ELSE 0

\* 38-44: the index of the line the loop breaks at, scanning from line n;
\* 0 when the loop ends without a match
RECURSIVE FirstMatch(_, _)
FirstMatch(lines, n) ==
    IF n > Len(lines) THEN 0
    ELSE IF StartsWithMarker(lines[n]) THEN n
    ELSE FirstMatch(lines, n + 1)

\* 35: np.empty does not initialize the array: an element holds whatever the
\* memory held, 0.0 or any other number.
Leftovers == {0, 20}

\* 36-45: the element i of times after the file is scanned; assigned
\* (history) tells whether line 43 stored it.
Sample(lines, leftover) ==
    IF FirstMatch(lines, 1) # 0
    THEN [assigned |-> TRUE, val |-> FloatOf(SplitToken(lines[FirstMatch(lines, 1)]))]
    ELSE [assigned |-> FALSE, val |-> leftover]

\* 42 raises in the scan of file f
FloatRaises(lines) ==
    FirstMatch(lines, 1) # 0 /\ ~IsFloat(SplitToken(lines[FirstMatch(lines, 1)]))

RECURSIVE Sum(_, _)
Sum(t, k) == IF k > Len(t) THEN 0 ELSE t[k].val + Sum(t, k + 1)
RECURSIVE SumSquares(_, _)
SumSquares(t, k) == IF k > Len(t) THEN 0 ELSE t[k].val * t[k].val + SumSquares(t, k + 1)

\* 46: times.mean(), as a fraction; nan for an empty array
Mean(t) ==
    IF Len(t) = 0 THEN [nan |-> TRUE, num |-> 0, den |-> 1]
    ELSE [nan |-> FALSE, num |-> Sum(t, 1), den |-> Len(t)]

\* 47: times.std(), given by its square, the population variance
Std(t) ==
    IF Len(t) = 0 THEN [nan |-> TRUE, num |-> 0, den |-> 1]
    ELSE [nan |-> FALSE, num |-> Len(t) * SumSquares(t, 1) - Sum(t, 1) * Sum(t, 1),
          den |-> Len(t) * Len(t)]

\* 35-48
MakeReport ==
    /\ rpc = "call"
    /\ IF \E k \in 1..Len(files) : FloatRaises(files[k])
       THEN /\ rpc' = "raised"
            /\ report' = [NoReport EXCEPT !.error = "ValueError"]
       ELSE \E leftover \in [1..Len(files) -> Leftovers] :
            LET times == [k \in 1..Len(files) |-> Sample(files[k], leftover[k])] IN
            /\ rpc' = "returned"
            /\ report' = [error |-> "none", avg |-> Mean(times), std |-> Std(times),
                          times |-> times]
    /\ UNCHANGED <<pc, jobs, pos, buildVars, runVars, argVars, files>>

NextReport == MakeReport

\* makeReport(files) is called, for every list of up to MaxFiles files of
\* up to MaxLines lines; no machine is involved.
InitReport ==
    /\ files \in SeqsUpTo(SeqsUpTo(SummaryLines, MaxLines), MaxFiles)
    /\ rpc = "call"
    /\ report = NoReport
    /\ pc = "none"
    /\ error = "none"
    /\ host = [darwin |-> FALSE, lustreAccess |-> FALSE, memUnit |-> "na", cpuUnit |-> "na"]
    /\ dataSetsArg = <<>>
    /\ argLens = [nIters |-> 0, skipDownloads |-> 0, steps |-> 0, scriptsSources |-> 0]
    /\ rows = <<>>
    /\ CASAglobals = "unset"
    /\ scriptDir = "unset"
    /\ totalMemBytes = FALSE
    /\ dataSets = <<>>
    /\ jobs = NoJobs
    /\ jobsCreated = FALSE
    /\ pos = 0
    /\ workDir = "unset"
    /\ quiet = FALSE
    /\ machineLog = "absent"
    /\ wrappingLog = <<>>
    /\ stdout = <<>>
    /\ dirs = {}
    /\ calls = <<>>
    /\ runNo = 0
    /\ cleanUp = FALSE
    /\ iter = 0
    /\ src = NoSrc
    /\ replay = ReplayOff

SpecReport == InitReport /\ [][NextReport]_vars

\* ------------------------------------------------------------------------
\* Properties
\* ------------------------------------------------------------------------
Handles == UNION {{jobs[d].benchmarks[k] : k \in 1..Len(jobs[d].benchmarks)} : d \in DOMAIN jobs}
ListOf(id) == jobs[dataSets[id[2]]].benchmarks
HandleOf(id) == ListOf(id)[CHOOSE k \in 1..Len(ListOf(id)) : ListOf(id)[k].id = id]
CallsOf(id, ops) == {n \in 1..Len(calls) : calls[n].b = id /\ calls[n].op \in ops}
ScriptOps == {"useOtherBmarkScripts", "doScriptExtraction"}
RunOps == {"runGuideScripts", "emptyCurrentRedDir", "removeTarDir"}
IterOf(id) == id[3]
PosOf(id) == id[2]
RunOf(id) == id[1]
PreviousId(id) == <<id[1], id[2], id[3] - 1>>
LastCall == calls[Len(calls)]
RunCompleted ==
    /\ pc = "built"
    /\ runNo >= 1
    /\ Len(wrappingLog) > 0
    /\ wrappingLog[Len(wrappingLog)] = LogLine("finished", "", 0)

\* C1: in one run, every iteration makes exactly one script-acquisition
\* call: iteration 0 extracts the scripts afresh; iteration i >= 1 reuses the
\* scripts of the context of iteration i-1 of its data set exactly when the
\* status of that context is normal, and extracts afresh when it is failure.
C1_ReusePolicy ==
    \A h \in Handles :
        /\ Cardinality(CallsOf(h.id, ScriptOps)) <= 1
        /\ h.afterScripts # "" => Cardinality(CallsOf(h.id, ScriptOps)) = 1
        /\ \A n \in CallsOf(h.id, ScriptOps) :
            IF IterOf(h.id) = 0
            THEN calls[n].op = "doScriptExtraction"
            ELSE IF HandleOf(PreviousId(h.id)).status = "normal"
                 THEN /\ calls[n].op = "useOtherBmarkScripts"
                      /\ calls[n].other = PreviousId(h.id)
                 ELSE calls[n].op = "doScriptExtraction"

\* C2: a context whose status is failure after the script-acquisition step
\* gets neither runGuideScripts nor a clean-up call, with cleanUp set or
\* not, and the loop goes on with the next iteration index.
C2_FailedIterationStops ==
    /\ \A n \in 1..Len(calls) :
        calls[n].op \in RunOps => HandleOf(calls[n].b).afterScripts = "normal"
    /\ (Len(calls) > 0 /\ HandleOf(LastCall.b).afterScripts = "failure") =>
        /\ pc \in {"iteration", "dataSet", "built"}
        /\ pc = "iteration" =>
            \/ pos = PosOf(LastCall.b) /\ iter = IterOf(LastCall.b) + 1
            \/ pos > PosOf(LastCall.b) /\ iter = 0

C2_Witness ==
    /\ cleanUp
    /\ pc = "iteration"
    /\ iter = 1
    /\ Len(calls) > 0
    /\ CallsOf(LastCall.b, RunOps) = {}
    /\ LastCall.op \in ScriptOps
    /\ HandleOf(LastCall.b).afterScripts = "failure"
    /\ jobs[CurDataSet].nIters = 2

\* C3: whatever statuses the stage runner reports, a run that has begun
\* starts every iteration 0..nIters-1 of every listed data set and emits the
\* completion marker.
AllStarted ==
    \A p \in 1..Len(dataSets) :
        \A i \in 0..(jobs[dataSets[p]].nIters - 1) :
            CallsOf(<<runNo, p, i>>, {"benchmark"}) # {}

C3_BatchCompletes == (pc = "dataSet") ~> (RunCompleted /\ AllStarted)

C3_Witness ==
    /\ RunCompleted
    /\ AllStarted
    /\ Len(dataSets) = 2
    /\ jobs[dataSets[1]].nIters = 2
    /\ \E h \in Handles : IterOf(h.id) = 0 /\ PosOf(h.id) = 1 /\ h.afterScripts = "failure"
    /\ \E h \in Handles : PosOf(h.id) = 2 /\ h.status = "failure" /\ h.afterScripts = "normal"

\* C4: the calls to the stage runner are made data set after data set in
\* listed order and, within a data set, iteration after iteration in
\* increasing index order: every context is constructed before its steps
\* are invoked, the contexts of a data set are constructed for the indices
\* 0, 1, 2, ... in turn, and no call for a context comes after a call for a
\* later one.
LexLeq(x, y) ==
    \/ x[1] < y[1]
    \/ x[1] = y[1] /\ x[2] < y[2]
    \/ x[1] = y[1] /\ x[2] = y[2] /\ x[3] <= y[3]

C4_SequentialOrder ==
    /\ \A n \in 1..Len(calls) :
        /\ n > 1 => LexLeq(calls[n - 1].b, calls[n].b)
        /\ calls[n].op = "benchmark" <=> (n = 1 \/ calls[n - 1].b # calls[n].b)
        /\ calls[n].op = "benchmark" /\ IterOf(calls[n].b) > 0 =>
            /\ n > 1
            /\ calls[n - 1].b = PreviousId(calls[n].b)
        /\ calls[n].op = "benchmark" /\ n > 1 /\ IterOf(calls[n].b) = 0 =>
            PosOf(calls[n - 1].b) < PosOf(calls[n].b) \/ RunOf(calls[n - 1].b) < RunOf(calls[n].b)

C4_Witness ==
    /\ RunCompleted
    /\ cleanUp
    /\ CallsOf(<<1, 1, 1>>, {"removeTarDir"}) # {}
    /\ CallsOf(<<1, 2, 1>>, {"emptyCurrentRedDir"}) # {}

\* C5: after construction from valid arguments and one completed run, the
\* list of contexts of each data set has exactly nIters elements, the
\* element at index k being the context of iteration k.
C5_HandleListLength ==
    (RunCompleted /\ runNo = 1 /\ \A d \in DOMAIN jobs : jobs[d].nIters >= 0) =>
        \A d \in DOMAIN jobs :
            /\ Len(jobs[d].benchmarks) = jobs[d].nIters
            /\ \A k \in 1..Len(jobs[d].benchmarks) : IterOf(jobs[d].benchmarks[k].id) = k - 1

\* The lengths of the four lists, against the number of data sets.
PastLengths == pc \in {"fillJobs", "checkWorkDir", "checkQuiet", "writeMachineLog", "built"}
LengthsDiffer ==
    \/ argLens.nIters # Len(dataSetsArg)
    \/ argLens.skipDownloads # Len(dataSetsArg)
    \/ argLens.steps # Len(dataSetsArg)
    \/ argLens.scriptsSources # Len(dataSetsArg)
LengthsDifferButSteps ==
    \/ argLens.nIters # Len(dataSetsArg)
    \/ argLens.skipDownloads # Len(dataSetsArg)
    \/ argLens.steps # Len(dataSetsArg) /\ argLens.steps # 0
    \/ argLens.scriptsSources # Len(dataSetsArg)

\* C6 as claimed: with any of the four lists of a length other than that of
\* the data-set list, an empty steps list included, construction fails.
C6_AnyLengthMismatchFails == LengthsDiffer => pc # "built"

\* C6: with the nIters, skipDownloads or scriptsSources list of a length
\* other than that of the data-set list, or a non-empty steps list of
\* another length, construction does not get past the length checks and
\* ends with a ValueError; an empty steps list stands for 'both' for every
\* data set.
C6_LengthMismatchFails ==
    /\ LengthsDifferButSteps =>
        /\ ~PastLengths
        /\ pc = "raised" => error = "ValueError"
    /\ (pc = "built" /\ argLens.steps = 0) =>
        \A d \in DOMAIN jobs : jobs[d].step = "both"

C6_Witness ==
    /\ pc = "raised"
    /\ jobsCreated
    /\ Len(dataSetsArg) = 2
    /\ argLens.nIters = 2
    /\ argLens.skipDownloads = 2
    /\ argLens.steps = 2
    /\ argLens.scriptsSources = 1

\* C7 as claimed: a construction that fails has created no job list,
\* filled no job entry and written no log file.
C7_NoPartialConstruction ==
    (pc = "raised" /\ error \in {"ValueError", "TypeError"}) =>
        /\ ~jobsCreated
        /\ \A d \in DOMAIN jobs : ~jobs[d].filled
        /\ machineLog = "absent"

\* C7: every validation (names, list lengths, element types, literals,
\* working directory, quiet) happens before the machine log is written: a
\* construction that fails a validation has written no log file, made no
\* call and created no directory, and a log file is written only for
\* arguments that passed them all.
C7_ValidationBeforeLog ==
    /\ (pc = "raised" /\ error \in {"ValueError", "TypeError"}) =>
        /\ machineLog = "absent"
        /\ wrappingLog = <<>>
        /\ dirs = {}
        /\ calls = <<>>
    /\ machineLog # "absent" =>
        /\ DataSetsError(dataSetsArg) = "none"
        /\ ~LengthsDifferButSteps
        /\ Len(rows) = Len(dataSetsArg)
        /\ \A k \in 1..Len(rows) :
            /\ rows[k].nIters.type = "int"
            /\ rows[k].skipDownload.type = "bool"
            /\ rows[k].step \in StepLiterals
            /\ rows[k].scriptsSource \in SourceLiterals
        /\ \A d \in DOMAIN jobs : jobs[d].filled
        /\ workDir = "/work/"

C7_Witness ==
    /\ pc = "raised"
    /\ error = "TypeError"
    /\ machineLog = "absent"
    /\ workDir = "/work/"
    /\ Len(rows) = 2
    /\ \A d \in DOMAIN jobs : jobs[d].filled

\* C8: construction rejects a negative iteration count: no entry of the
\* table of a constructed machine has nIters < 0.
C8_NoNegativeIterationCount ==
    /\ (\E k \in 1..Len(rows) : rows[k].nIters.type = "int" /\ rows[k].nIters.val < 0) =>
        pc # "built"
    /\ pc = "built" => \A d \in DOMAIN jobs : jobs[d].nIters >= 0

\* C9: construction fails when a step is not 'cal', 'im' or 'both' or a
\* scripts source is not 'web' or 'disk': once such a position has been
\* read an exception is raised, and every entry of the table of a
\* constructed machine has a recognized step and scripts source.
C9_LiteralsValidated ==
    /\ (\E k \in 1..Len(rows) :
            rows[k].step \notin StepLiterals \/ rows[k].scriptsSource \notin SourceLiterals) =>
        /\ pc = "raised"
        /\ error \in {"ValueError", "TypeError"}
    /\ pc = "built" =>
        \A d \in DOMAIN jobs :
            jobs[d].step \in StepLiterals /\ jobs[d].scriptsSource \in SourceLiterals

C9_Witness ==
    /\ pc = "raised"
    /\ error = "ValueError"
    /\ Len(rows) = 2
    /\ RowError(rows[1]) = "none"
    /\ rows[2].nIters.type = "int"
    /\ rows[2].skipDownload.type = "bool"
    /\ rows[2].step \in StepLiterals
    /\ rows[2].scriptsSource \notin SourceLiterals

\* C10: with an empty data-set list, or a name that the catalog does not
\* have, construction fails at the check of the names: no job list is
\* created, no machine is constructed, no directory is created and no run
\* context is constructed.
NameAbsent == \E k \in 1..Len(dataSetsArg) : dataSetsArg[k] \notin CatalogNames

C10_UnknownDataSetFails ==
    (NameAbsent \/ Len(dataSetsArg) = 0) =>
        /\ pc \in {"checkCASAglobals", "checkScriptDir", "gatherFacts", "checkDataSets", "raised"}
        /\ pc = "raised" => error = "ValueError"
        /\ ~jobsCreated
        /\ dirs = {}
        /\ calls = <<>>

C10_Witness ==
    /\ NameAbsent
    /\ Len(dataSetsArg) = 2
    /\ dataSetsArg[1] \in RunnableNames
    /\ pc = "raised"
    /\ CASAglobals = "globals"
    /\ scriptDir = "/scripts/"
    /\ FactsError(host) = "none"

\* The RunSpec the caller gave for the data set a context belongs to.
RunSpecOf(id) == rows[PosOf(id)]
MacLike == host.darwin
HighSpeedStorageAccess == host.lustreAccess

\* C11: the data path of every run context comes from the remote branch
\* when skipDownload is false, from the local-cache branch when skipDownload
\* is true on a macLike host without storage access, and from the
\* privileged-storage branch otherwise; within the branch it is the
\* uncalibrated-data path for stage cal or both and the calibrated-data
\* path for stage im.
C11_DataSourceResolution ==
    \A h \in Handles :
        LET r == RunSpecOf(h.id) IN
        /\ h.dataPath[1] = dataSets[PosOf(h.id)]
        /\ h.dataPath[2] =
              (IF ~r.skipDownload.val THEN "online"
               ELSE IF ~HighSpeedStorageAccess /\ MacLike THEN "elric"
               ELSE "lustre")
        /\ r.step \in {"cal", "both"} => h.dataPath[3] = "uncalData"
        /\ r.step = "im" => h.dataPath[3] = "calData"

C11_Witness ==
    /\ ~MacLike
    /\ ~HighSpeedStorageAccess
    /\ \E h \in Handles :
        /\ RunSpecOf(h.id).skipDownload.val
        /\ RunSpecOf(h.id).step = "im"
        /\ h.dataPath = <<"A42", "lustre", "calData">>
        /\ CallsOf(h.id, {"extractData"}) # {}

\* C12: the script sources of every run context are decided by the scripts
\* source of the RunSpec and the host alone, whatever skipDownload and the
\* stage are: with 'web' both come from the remote branch on every host;
\* with 'disk' both come from one branch, the local-cache branch on a
\* macLike host without storage access and the privileged-storage branch
\* otherwise.
ExpectedScriptBranch(source) ==
    IF source = "web" THEN "online"
    ELSE IF ~HighSpeedStorageAccess /\ MacLike THEN "elric"
    ELSE "lustre"

C12_ScriptSourcing ==
    \A h \in Handles :
        LET branch == ExpectedScriptBranch(RunSpecOf(h.id).scriptsSource) IN
        /\ h.calSource = <<dataSets[PosOf(h.id)], branch, "calScript">>
        /\ h.imSource = <<dataSets[PosOf(h.id)], branch, "imScript">>

C12_Witness ==
    /\ MacLike
    /\ ~HighSpeedStorageAccess
    /\ \E h \in Handles :
        /\ RunSpecOf(h.id).scriptsSource = "disk"
        /\ ~RunSpecOf(h.id).skipDownload.val
        /\ RunSpecOf(h.id).step = "im"
        /\ h.dataPath[2] = "online"
        /\ h.calSource[2] = "elric"
        /\ h.imSource[2] = "elric"
        /\ CallsOf(h.id, {"doScriptExtraction"}) # {}

\* C13: when a run has completed, the wrapping log holds, for every context
\* of the run whose status is failure, an entry other than the data-set
\* start, iteration start and completion lines that records the failure of
\* that iteration.
FailureLogged(id) ==
    \E n \in 1..Len(wrappingLog) :
        /\ wrappingLog[n].event \notin {"dataSet", "iteration", "finished"}
        /\ wrappingLog[n].n = IterOf(id)

C13_FailuresLogged ==
    RunCompleted => \A h \in Handles : h.status = "failure" => FailureLogged(h.id)

\* C14: of two runs on the same inputs with the same statuses reported by
\* the stage runner, one quiet and one not, the second appends to the
\* wrapping log the lines the first appended and makes the calls the first
\* made, in the same order; the terminal output alone differs: the quiet run
\* prints nothing and the other prints every line it logs.
IsPrefix(x, y) == Len(x) <= Len(y) /\ \A n \in 1..Len(x) : x[n] = y[n]
Echo(q, log) == IF q THEN <<>> ELSE log

C14_QuietIndependence ==
    /\ stdout = Echo(quiet, wrappingLog)
    /\ replay.mode = "replay" =>
        /\ IsPrefix(wrappingLog, replay.log)
        /\ IsPrefix(calls, replay.calls)
        /\ replay.stdout = Echo(~quiet, replay.log)
        /\ pc = "built" =>
            /\ wrappingLog = replay.log
            /\ calls = replay.calls
            /\ replay.outcomes = <<>>

C14_Witness ==
    /\ replay.mode = "replay"
    /\ pc = "built"
    /\ quiet
    /\ stdout = <<>>
    /\ Len(replay.stdout) >= 4
    /\ wrappingLog = replay.log
    /\ Len(calls) >= 6
    /\ cleanUp
    /\ \E h \in Handles : h.afterScripts = "failure"
    /\ \E h \in Handles : CallsOf(h.id, {"runGuideScripts"}) # {}

\* C15: the wrapping log of one run is, for each data set in listed order,
\* one data-set-start line carrying the iteration count of its job entry
\* and then one iteration-start line per index 0..nIters-1 in increasing
\* order, and last the completion marker, written once after the lines of
\* all data sets; the iteration-start line of an iteration is in the log
\* when a call for its context is made.
IterationLines(n) == [i \in 1..n |-> LogLine("iteration", "", i - 1)]

RECURSIVE DataSetLines(_)
DataSetLines(p) ==
    IF p > Len(dataSets) THEN <<>>
    ELSE <<LogLine("dataSet", dataSets[p], jobs[dataSets[p]].nIters)>>
         \o IterationLines(jobs[dataSets[p]].nIters) \o DataSetLines(p + 1)

ExpectedLog == Append(DataSetLines(1), LogLine("finished", "", 0))

\* The number of lines of ExpectedLog up to the iteration-start line of
\* iteration i of the data set at position p.
RECURSIVE LinesUpTo(_, _)
LinesUpTo(p, i) ==
    IF p = 1 THEN i + 2 ELSE 1 + jobs[dataSets[p - 1]].nIters + LinesUpTo(p - 1, i)

Markers == {n \in 1..Len(wrappingLog) : wrappingLog[n].event = "finished"}

C15_WrappingLogOrder ==
    /\ IsPrefix(wrappingLog, ExpectedLog)
    /\ RunCompleted => wrappingLog = ExpectedLog /\ Cardinality(Markers) = 1
    /\ Markers # {} => pc = "built"
    /\ \A n \in 1..Len(calls) :
        /\ Len(wrappingLog) >= LinesUpTo(PosOf(calls[n].b), IterOf(calls[n].b))
        /\ wrappingLog[LinesUpTo(PosOf(calls[n].b), IterOf(calls[n].b))] =
              LogLine("iteration", "", IterOf(calls[n].b))

C15_Witness ==
    /\ RunCompleted
    /\ Len(dataSets) = 2
    /\ wrappingLog = <<LogLine("dataSet", "A42", 2), LogLine("iteration", "", 0),
                       LogLine("iteration", "", 1), LogLine("dataSet", "B42", 1),
                       LogLine("iteration", "", 0), LogLine("finished", "", 0)>>
    /\ \E h \in Handles : h.status = "failure"

\* The files among the arguments of makeReport that have no line starting
\* with 'Total time: '.
HasMarkerLine(f) == \E n \in 1..Len(f) : StartsWithMarker(f[n])
Unmarked == {k \in 1..Len(files) : ~HasMarkerLine(files[k])}

\* C16: makeReport returns no result when one of the files has no line
\* starting with 'Total time: ', and no returned sample is a value that
\* was never assigned.
C16_MissingMarkerFails ==
    /\ Unmarked # {} => rpc # "returned"
    /\ rpc = "returned" => \A k \in 1..Len(report.times) : report.times[k].assigned

\* C20: the array makeReport returns has one sample per file, in the order
\* of the files; the sample of a file that has a line starting with the
\* marker is the number on the first such line, whatever later lines say.
IsFirstMarkerLine(f, n) ==
    /\ StartsWithMarker(f[n])
    /\ \A m \in 1..(n - 1) : ~StartsWithMarker(f[m])

C20_FirstMatchInOrder ==
    rpc = "returned" =>
        /\ Len(report.times) = Len(files)
        /\ \A k \in 1..Len(files) :
            \A n \in 1..Len(files[k]) :
                IsFirstMarkerLine(files[k], n) =>
                    /\ report.times[k].assigned
                    /\ files[k][n] = TotalLine("10") => report.times[k].val = 10
                    /\ files[k][n] = TotalLine("20") => report.times[k].val = 20

C20_Witness ==
    /\ rpc = "returned"
    /\ files = <<<<TotalLine("20"), TotalLine("10")>>,
                 <<<<"Elapsed:", "10", "s">>, TotalLine("10")>>>>
    /\ report.times[1].val = 20
    /\ report.times[2].val = 10

\* C17: for a context of a data set whose job entry has skipDownload false,
\* downloadData is called once, before extractData; for one with
\* skipDownload true it is never called; extractData is called once for
\* every context, before the script-acquisition call.
JobOf(id) == jobs[dataSets[PosOf(id)]]
Only(S) == CHOOSE n \in S : TRUE

\* The call made before, and after, the n-th call is for the same context
\* and is the operation op.
Before(n, op) == n > 1 /\ calls[n - 1].b = calls[n].b /\ calls[n - 1].op = op
After(n, ops) == n < Len(calls) => calls[n + 1].b = calls[n].b /\ calls[n + 1].op \in ops
FirstStep(id) == IF JobOf(id).skipDownload THEN "benchmark" ELSE "downloadData"

C17_DownloadOrdering ==
    /\ \A n \in 1..Len(calls) :
        /\ calls[n].op = "benchmark" =>
            /\ n > 1 => calls[n - 1].b # calls[n].b /\ LexLeq(calls[n - 1].b, calls[n].b)
            /\ After(n, IF JobOf(calls[n].b).skipDownload THEN {"extractData"}
                         ELSE {"downloadData"})
        /\ calls[n].op = "downloadData" =>
            /\ ~JobOf(calls[n].b).skipDownload
            /\ Before(n, "benchmark")
            /\ After(n, {"extractData"})
        /\ calls[n].op = "extractData" =>
            /\ Before(n, FirstStep(calls[n].b))
            /\ After(n, ScriptOps)
        /\ calls[n].op \in ScriptOps => Before(n, "extractData")
    /\ (Len(calls) > 0 /\ LastCall.op \in {"benchmark", "downloadData", "extractData"}) =>
        pc \in {"downloadData", "extractData", "scripts"}

C17_Witness ==
    /\ RunCompleted
    /\ Len(dataSets) = 2
    /\ ~JobOf(<<1, 1, 0>>).skipDownload
    /\ JobOf(<<1, 2, 0>>).skipDownload
    /\ CallsOf(<<1, 1, 1>>, {"downloadData"}) # {}
    /\ CallsOf(<<1, 2, 0>>, {"extractData"}) # {}
    /\ CallsOf(<<1, 2, 0>>, {"downloadData"}) = {}
    /\ \E h \in Handles : PosOf(h.id) = 1 /\ h.afterScripts = "failure"

\* C18: for every context that runGuideScripts was called for, once the
\* iteration is over, emptyCurrentRedDir has been called (once, after
\* runGuideScripts) exactly when cleanUp is set, and removeTarDir (once,
\* after emptyCurrentRedDir) exactly when cleanUp is set and the job entry
\* has skipDownload false, whatever the status after execution; until
\* then, and for a context that was not executed, neither is called.
NextContext(n) == n < Len(calls) => calls[n + 1].op = "benchmark"

C18_CleanUpPolicy ==
    /\ \A n \in 1..Len(calls) :
        /\ calls[n].op = "runGuideScripts" =>
            IF cleanUp THEN After(n, {"emptyCurrentRedDir"}) ELSE NextContext(n)
        /\ calls[n].op = "emptyCurrentRedDir" =>
            /\ cleanUp
            /\ Before(n, "runGuideScripts")
            /\ IF ~JobOf(calls[n].b).skipDownload
               THEN n < Len(calls) /\ After(n, {"removeTarDir"})
               ELSE NextContext(n)
        /\ calls[n].op = "removeTarDir" =>
            /\ cleanUp
            /\ ~JobOf(calls[n].b).skipDownload
            /\ Before(n, "emptyCurrentRedDir")
            /\ NextContext(n)
    /\ (Len(calls) > 0 /\ LastCall.op = "runGuideScripts" /\ cleanUp) => pc = "cleanUp"

C18_Witness ==
    /\ RunCompleted
    /\ cleanUp
    /\ \E h \in Handles :
        /\ ~JobOf(h.id).skipDownload
        /\ h.status = "failure"
        /\ CallsOf(h.id, {"runGuideScripts"}) # {}
        /\ CallsOf(h.id, {"removeTarDir"}) # {}
    /\ \E h \in Handles :
        /\ JobOf(h.id).skipDownload
        /\ CallsOf(h.id, {"emptyCurrentRedDir"}) # {}
        /\ CallsOf(h.id, {"removeTarDir"}) = {}

\* C19: resolving again at any point of the iterations of a data set, with
\* the statuses and the list of contexts as they then are, gives the values
\* resolved at the head of the data-set loop; and all contexts of a data
\* set in one run are given the same data path, script sources, stage and
\* skip-download flag, those of the RunSpec, whatever the earlier
\* iterations came to.
InIterations ==
    pc \in {"iteration", "downloadData", "extractData", "scripts", "runGuideScripts", "cleanUp"}

SameSources(x, y) ==
    /\ x.dataPath = y.dataPath
    /\ x.calSource = y.calSource
    /\ x.imSource = y.imSource

C19_ResolutionPure ==
    /\ InIterations =>
        /\ src = Resolve(host, CurDataSet, jobs[CurDataSet])
        /\ \A k \in 1..Len(CurList) : RunOf(CurList[k].id) = runNo => SameSources(CurList[k], src)
    /\ \A h1, h2 \in Handles :
        (PosOf(h1.id) = PosOf(h2.id) /\ RunOf(h1.id) = RunOf(h2.id)) =>
            /\ SameSources(h1, h2)
            /\ h1.execStep = h2.execStep
            /\ h1.skipDownload = h2.skipDownload
    /\ \A h \in Handles :
        /\ h.execStep = RunSpecOf(h.id).step
        /\ h.skipDownload = RunSpecOf(h.id).skipDownload.val

C19_Witness ==
    /\ MacLike
    /\ ~HighSpeedStorageAccess
    /\ RunCompleted
    /\ rows[1].scriptsSource = "disk"
    /\ rows[1].skipDownload.val
    /\ rows[1].step = "im"
    /\ Len(jobs["A42"].benchmarks) = 2
    /\ jobs["A42"].benchmarks[1].afterScripts = "failure"
    /\ jobs["A42"].benchmarks[2].dataPath = <<"A42", "elric", "calData">>
    /\ jobs["A42"].benchmarks[2].status = "normal"

\* C21: in every call of runBenchmarks on a machine, the context consulted
\* at iteration i >= 1 is the one constructed for iteration i-1 of the same
\* data set in the same call: the scripts reused are those of that context,
\* and the scripts are extracted afresh only when that context has failed.
C21_SameRunHandle ==
    \A n \in 1..Len(calls) :
        /\ calls[n].op = "useOtherBmarkScripts" => calls[n].other = PreviousId(calls[n].b)
        /\ (calls[n].op = "doScriptExtraction" /\ IterOf(calls[n].b) >= 1) =>
            HandleOf(PreviousId(calls[n].b)).status = "failure"

\* C22: the contexts of the data set listed at position k are constructed
\* with the step and skip-download flag given at position k of the argument
\* lists and for the indices below nIters[k], as many as nIters[k] when the
\* run has completed; and the list they are recorded in holds the contexts
\* of no other position.
Constructions(p) ==
    {n \in 1..Len(calls) : calls[n].op = "benchmark" /\ PosOf(calls[n].b) = p}

C22_PerPositionRunSpec ==
    /\ \A h \in Handles :
        /\ h.execStep = RunSpecOf(h.id).step
        /\ h.skipDownload = RunSpecOf(h.id).skipDownload.val
        /\ IterOf(h.id) < RunSpecOf(h.id).nIters.val
    /\ RunCompleted =>
        \A p \in 1..Len(dataSets) : Cardinality(Constructions(p)) = rows[p].nIters.val
    /\ \A d \in DOMAIN jobs :
        \A k, m \in 1..Len(jobs[d].benchmarks) :
            PosOf(jobs[d].benchmarks[k].id) = PosOf(jobs[d].benchmarks[m].id)
====
